---- MODULE Spec2Model ----
(***************************************************************************)
(* Model of ReConn (src/reconnect.go, lines 1-258): a websocket connection *)
(* that redials when a read or a write fails.                              *)
(*                                                                         *)
(* Goroutines are the elements of Procs.  Every exported method is split   *)
(* into the steps at which other goroutines can interleave: the unguarded  *)
(* accesses of r.dialed, the acquisitions of r.mu, the wait on time.After, *)
(* the call of the Dialer and the call of the subscribe handler.           *)
(*                                                                         *)
(* r.conn has the interface type WsConnection (line 24).  Line 201 stores  *)
(* the *websocket.Conn returned by Dialer.Dial in it also when Dial fails; *)
(* the field then holds an interface value that wraps a nil pointer, which *)
(* is not equal to nil in the tests of lines 142, 171, 191 and 236.  This  *)
(* value is NilPtr below; a method called on it dereferences nil and       *)
(* panics.  A panic is not recovered anywhere in the package, so it ends   *)
(* the process (pc = "panic" stops every goroutine).                       *)
(***************************************************************************)
EXTENDS Integers, Sequences, FiniteSets, TLC

\* ------------------------------------------------------------------ bounds
NumProcs == 2
MaxDials == 3
MaxTime == 1

Procs == 1..NumProcs
NoProc == 0

\* values of the field r.conn
Nil == 0
NilPtr == -1
Sockets == 1..MaxDials

\* values the setters are called with
Timeouts == {2}
Handlers == {TRUE}
Urls == {"ws://a"}
HandshakeTimeouts == {5}
Loggers == {"nil", "L1"}

VARIABLES
    conn,               \* r.conn: Nil, NilPtr or a socket
    nextReconnectTime,  \* r.nextReconnectTime
    dialed,             \* r.dialed
    reconnectTimeout,   \* r.reconnectTimeout
    subscribeHandler,   \* r.subscribeHandler # nil
    mu,                 \* r.mu: the writer and the set of readers
    now,                \* time.Now()
    pc,                 \* position of every goroutine
    call,               \* locals of the call every goroutine is in or has left
    closeCount,         \* per socket, the number of Close() calls made on it
    dialCount,          \* number of invocations of the Dialer so far
    dialLog,            \* the two most recent invocations of the Dialer
    closedByUser,       \* Close() emptied r.conn and no dial has refilled it
    redials,            \* per socket, the Dialer invocations made by the reads
                        \* and writes that failed on it
    url,                \* r.url
    handshakeTimeout,   \* r.handshakeTimeout
    log,                \* r.log
    opened,             \* the sockets the Dialer has produced
    value,              \* atomicBool.value (src/bool.go)
    boolCall,           \* per goroutine, its call of Set or Get on the atomicBool
    lastSet             \* the argument of the latest Set that has stored

vars == <<conn, nextReconnectTime, dialed, reconnectTimeout, subscribeHandler,
          mu, now, pc, call, closeCount, dialCount, dialLog, closedByUser,
          redials, url, handshakeTimeout, log, opened, value, boolCall, lastSet>>

\* the configuration that no step of the connection reads back
plainConfig == <<url, handshakeTimeout, log>>

\* the atomicBool and its callers
boolVars == <<value, boolCall, lastSet>>

\* ------------------------------------------------------------------ errors
\* An error value: kind is the sentinel or the wrapper, orig and rec are the
\* two messages formatted into a composed error (lines 132 and 161).
Plain(e) == [kind |-> e, orig |-> "", rec |-> ""]
Composed(o, r) == [kind |-> "composed", orig |-> o, rec |-> r]
NoResult == Plain("pending")

\* Locals of a call: the method, the error of the read or write and the
\* socket it was delegated to, the error of connect, the socket connect closed,
\* the number of Dialer invocations the call made, whether r.conn had been
\* emptied by Close() when the call started and when it locked for connect,
\* and the error returned.
NoCall == [op |-> "none", opErr |-> "nil", recErr |-> "nil", sock |-> Nil,
           old |-> Nil, dials |-> 0, closedAtStart |-> FALSE,
           closedAtLock |-> FALSE, ret |-> NoResult]

NewCall(o) == [NoCall EXCEPT !.op = o, !.closedAtStart = closedByUser]

Crashed == \E p \in Procs : pc[p] = "panic"

\* A call that may reach the Dialer is started only while the bound on the
\* number of Dialer invocations leaves room for it.
MayDial == {p \in Procs : pc[p] \in {"dial_set", "rlock", "delegate", "c_lock", "c_wait"}}
Budget == dialCount + Cardinality(MayDial) < MaxDials

Init ==
    /\ conn = Nil
    /\ nextReconnectTime = 0
    /\ dialed = FALSE
    /\ reconnectTimeout = 0
    /\ subscribeHandler = FALSE
    /\ mu = [writer |-> NoProc, readers |-> {}]
    /\ now = 0
    /\ pc = [p \in Procs |-> "idle"]
    /\ call = [p \in Procs |-> NoCall]
    /\ closeCount = [s \in Sockets |-> 0]
    /\ dialCount = 0
    /\ dialLog = <<>>
    /\ closedByUser = FALSE
    /\ redials = [s \in Sockets |-> 0]
    /\ url = ""
    /\ handshakeTimeout = 0
    /\ log = "NoopLogger"
    /\ opened = {}
    /\ value = 0
    /\ boolCall = [p \in Procs |-> [pc |-> "idle", arg |-> FALSE, v |-> 0, got |-> "none"]]
    /\ lastSet = "none"

\* A call returns e: of its locals only the method and e stay
Return(p, op, e) == [call EXCEPT ![p] = [NoCall EXCEPT !.op = op, !.ret = e]]

\* ----------------------------------------------------------------- setters
\* a setter without the test of r.dialed
AssignAlways(cur, v) == v

\* lines 66-68, 74-76, 82-84, 90-92, 98-104: if !r.dialed { r.field = v }
Assign(cur, v) == IF ~dialed THEN v ELSE cur

SetReconnectTimeout(p, d) ==
    /\ ~Crashed /\ pc[p] = "idle"
    /\ reconnectTimeout' = Assign(reconnectTimeout, d)
    /\ UNCHANGED <<conn, nextReconnectTime, dialed, subscribeHandler, mu, now,
                   pc, call, closeCount, dialCount, dialLog, closedByUser, redials>>
    /\ UNCHANGED <<plainConfig, opened, boolVars>>

SetSubscribeHandler(p, f) ==
    /\ ~Crashed /\ pc[p] = "idle"
    /\ subscribeHandler' = Assign(subscribeHandler, f)
    /\ UNCHANGED <<conn, nextReconnectTime, dialed, reconnectTimeout, mu, now,
                   pc, call, closeCount, dialCount, dialLog, closedByUser, redials>>
    /\ UNCHANGED <<plainConfig, opened, boolVars>>

\* the connection and its bookkeeping, which the setters below leave alone
connState == <<conn, nextReconnectTime, dialed, mu, now, pc, closeCount,
               dialCount, dialLog, closedByUser, redials, opened>>

SetURL(p, u) ==
    /\ ~Crashed /\ pc[p] = "idle"
    /\ url' = Assign(url, u)
    /\ call' = Return(p, "SetURL", Plain("nil"))
    /\ UNCHANGED <<connState, reconnectTimeout, subscribeHandler,
                   handshakeTimeout, log, boolVars>>

SetHandshakeTimeout(p, d) ==
    /\ ~Crashed /\ pc[p] = "idle"
    /\ handshakeTimeout' = Assign(handshakeTimeout, d)
    /\ call' = Return(p, "SetHandshakeTimeout", Plain("nil"))
    /\ UNCHANGED <<connState, reconnectTimeout, subscribeHandler, url, log,
                   boolVars>>

\* lines 99-101: a nil logger is replaced by NoopLogger{}
SetLogger(p, l) ==
    /\ ~Crashed /\ pc[p] = "idle"
    /\ log' = Assign(log, IF l = "nil" THEN "NoopLogger" ELSE l)
    /\ call' = Return(p, "SetLogger", Plain("nil"))
    /\ UNCHANGED <<connState, reconnectTimeout, subscribeHandler, url,
                   handshakeTimeout, boolVars>>

\* -------------------------------------------------------------------- time
Tick ==
    /\ ~Crashed
    /\ now < MaxTime \/ (now < nextReconnectTime /\ \E p \in Procs : pc[p] = "c_wait")
    /\ now' = now + 1
    /\ UNCHANGED <<conn, nextReconnectTime, dialed, reconnectTimeout,
                   subscribeHandler, mu, pc, call, closeCount, dialCount, dialLog,
                   closedByUser, redials>>
    /\ UNCHANGED <<plainConfig, opened, boolVars>>

\* ------------------------------------------------------------------ helpers
Locked(p) == [mu EXCEPT !.writer = p]
Unlocked == [mu EXCEPT !.writer = NoProc]

\* a Lock that does not wait for the readers
LockIgnoresReaders == mu.writer = NoProc

\* r.mu.Lock() returns only when no goroutine holds r.mu in either mode
CanLock == mu.writer = NoProc /\ mu.readers = {}

\* r.mu.RLock() returns only when no goroutine holds r.mu for writing
CanRLock == mu.writer = NoProc

\* lines 140 and 169: defer r.mu.RUnlock()
RUnlocked(p) == [mu EXCEPT !.readers = @ \ {p}]

\* a Close that leaves the socket open
CloseSkipped(s) == closeCount

\* lines 194, 213 and 242: r.conn.Close() on socket s
CloseSocket(s) == [closeCount EXCEPT ![s] = @ + 1]

\* Results of a read or a write on socket s, and of closing it: a socket that
\* was closed fails, an open one fails when the transport does.
SockOpResults(s) == IF closeCount[s] > 0 THEN {"sockErr"} ELSE {"nil", "sockErr"}
CloseResults(s) == IF closeCount[s] > 0 THEN {"closeErr"} ELSE {"nil", "closeErr"}

\* Dial without the test of line 108
DialUnguarded == FALSE

\* line 108: if r.dialed { return ErrAlreadyDialed }
AlreadyDialed == dialed

\* a method without the test of r.dialed
NotDialedUnchecked == FALSE

\* lines 121, 150, 229: if !r.dialed { return ErrNotDialed }
NotDialed == ~dialed

\* connect without the wait of line 198
WaitSkipped == TRUE

\* line 198: <-time.After(r.nextReconnectTime.Sub(time.Now()))
WaitElapsed == now >= nextReconnectTime

\* a deferred function that ignores the result of connect
DeferredAlwaysAdvances(err) == now + reconnectTimeout

\* a deferred function that leaves r.nextReconnectTime alone
DeferredNeverAdvances(err) == nextReconnectTime

\* lines 184-189: the deferred function of connect
DeferredNextReconnectTime(err) ==
    IF err = "nil" THEN nextReconnectTime ELSE now + reconnectTimeout

\* a caller that wraps the error of the read or write whatever connect returned
ReturnErrorAlwaysComposed(op, opErr, recErr) ==
    IF op = "Dial" THEN Plain(recErr) ELSE Composed(opErr, recErr)

\* a caller that drops the error of connect
ReturnErrorOriginalOnly(op, opErr, recErr) ==
    IF op = "Dial" THEN Plain(recErr) ELSE Plain(opErr)

\* lines 131-135 and 160-164: what ReadMessage and WriteMessage return after
\* connect; line 113: Dial returns the result of connect
ReturnError(op, opErr, recErr) ==
    IF op = "Dial" THEN Plain(recErr)
    ELSE IF recErr # "nil" THEN Composed(opErr, recErr)
    ELSE Plain(opErr)

\* -------------------------------------------------------------------- Dial
Dial(p) ==
    /\ ~Crashed /\ pc[p] = "idle"
    /\ IF AlreadyDialed
          THEN /\ call' = Return(p, "Dial", Plain("ErrAlreadyDialed"))
               /\ pc' = pc
          ELSE /\ Budget
               /\ call' = [call EXCEPT ![p] = NewCall("Dial")]
               /\ pc' = [pc EXCEPT ![p] = "dial_set"]
    /\ UNCHANGED <<conn, nextReconnectTime, dialed, reconnectTimeout,
                   subscribeHandler, mu, now, closeCount, dialCount, dialLog, closedByUser, redials>>
    /\ UNCHANGED <<plainConfig, opened, boolVars>>

\* line 111: r.dialed = true, then connect
DialSetDialed(p) ==
    /\ ~Crashed /\ pc[p] = "dial_set"
    /\ dialed' = TRUE
    /\ pc' = [pc EXCEPT ![p] = "c_lock"]
    /\ UNCHANGED <<conn, nextReconnectTime, reconnectTimeout, subscribeHandler,
                   mu, now, call, closeCount, dialCount, dialLog, closedByUser, redials>>
    /\ UNCHANGED <<plainConfig, opened, boolVars>>

\* ------------------------------------------------------------ Read / Write
StartReadWrite(p, op) ==
    /\ ~Crashed /\ pc[p] = "idle"
    /\ IF NotDialed
          THEN /\ call' = Return(p, op, Plain("ErrNotDialed"))
               /\ pc' = pc
          ELSE /\ Budget
               /\ call' = [call EXCEPT ![p] = NewCall(op)]
               /\ pc' = [pc EXCEPT ![p] = "rlock"]
    /\ UNCHANGED <<conn, nextReconnectTime, dialed, reconnectTimeout,
                   subscribeHandler, mu, now, closeCount, dialCount, dialLog, closedByUser, redials>>
    /\ UNCHANGED <<plainConfig, opened, boolVars>>

ReadMessage(p) == StartReadWrite(p, "ReadMessage")

WriteMessage(p) == StartReadWrite(p, "WriteMessage")

\* lines 139 and 168: r.mu.RLock()
RLock(p) ==
    /\ ~Crashed /\ pc[p] = "rlock"
    /\ CanRLock
    /\ mu' = [mu EXCEPT !.readers = @ \cup {p}]
    /\ pc' = [pc EXCEPT ![p] = "delegate"]
    /\ UNCHANGED <<conn, nextReconnectTime, dialed, reconnectTimeout,
                   subscribeHandler, now, call, closeCount, dialCount, dialLog,
                   closedByUser, redials>>
    /\ UNCHANGED <<plainConfig, opened, boolVars>>

\* lines 142-146 (171-175) with the deferred RUnlock, then lines 126-128
\* (155-157) of the caller: a nil error returns, any other goes to connect.
Delegate(p, op) ==
    /\ ~Crashed /\ pc[p] = "delegate" /\ call[p].op = op
    /\ mu' = RUnlocked(p)
    /\ \/ /\ conn = Nil
          /\ call' = [call EXCEPT ![p].opErr = "ErrNotConnected"]
          /\ pc' = [pc EXCEPT ![p] = "c_lock"]
       \/ /\ conn = NilPtr
          /\ call' = Return(p, call[p].op, Plain("panic"))
          /\ pc' = [pc EXCEPT ![p] = "panic"]
       \/ /\ conn \in Sockets
          /\ \E e \in SockOpResults(conn) :
                IF e = "nil"
                   THEN /\ call' = Return(p, call[p].op, Plain("nil"))
                        /\ pc' = [pc EXCEPT ![p] = "idle"]
                   ELSE /\ call' = [call EXCEPT ![p].sock = conn, ![p].opErr = e]
                        /\ pc' = [pc EXCEPT ![p] = "c_lock"]
    /\ UNCHANGED <<conn, nextReconnectTime, dialed, reconnectTimeout,
                   subscribeHandler, now, closeCount, dialCount, dialLog, closedByUser, redials>>
    /\ UNCHANGED <<plainConfig, opened, boolVars>>

readMessage(p) == Delegate(p, "ReadMessage")

writeMessage(p) == Delegate(p, "WriteMessage")

\* ----------------------------------------------------------------- connect
\* dialLog keeps the latest invocation of the Dialer and the one before it
Recent(entries) == IF Len(entries) > 2 THEN Tail(entries) ELSE entries

\* lines 179-196: r.mu.Lock(), then the previous connection is closed and
\* dropped.  Close() on NilPtr panics; the deferred function sees err = nil
\* and the deferred Unlock releases the mutex.
connectLock(p) ==
    /\ ~Crashed /\ pc[p] = "c_lock"
    /\ CanLock
    /\ \/ /\ conn = Nil
          /\ mu' = Locked(p)
          /\ call' = [call EXCEPT ![p].closedAtLock = closedByUser]
          /\ pc' = [pc EXCEPT ![p] = "c_wait"]
          /\ UNCHANGED <<conn, closeCount>>
       \/ /\ conn \in Sockets
          /\ mu' = Locked(p)
          /\ closeCount' = CloseSocket(conn)
          /\ conn' = Nil
          /\ call' = [call EXCEPT ![p].old = conn]
          /\ pc' = [pc EXCEPT ![p] = "c_wait"]
       \/ /\ conn = NilPtr
          /\ call' = Return(p, call[p].op, Plain("panic"))
          /\ pc' = [pc EXCEPT ![p] = "panic"]
          /\ UNCHANGED <<conn, closeCount, mu>>
    /\ UNCHANGED <<nextReconnectTime, dialed, reconnectTimeout,
                   subscribeHandler, now, dialCount, dialLog, closedByUser, redials>>
    /\ UNCHANGED <<plainConfig, opened, boolVars>>

\* line 198, then line 201 invokes the Dialer
connectWait(p) ==
    /\ ~Crashed /\ pc[p] = "c_wait"
    /\ WaitElapsed
    /\ dialCount' = dialCount + 1
    /\ dialLog' = Recent(Append(dialLog, [start |-> now, end |-> -1, outcome |-> "dialing"]))
    /\ call' = [call EXCEPT ![p].dials = @ + 1]
    /\ redials' = IF call[p].sock \in Sockets
                     THEN [redials EXCEPT ![call[p].sock] = @ + 1]
                     ELSE redials
    /\ pc' = [pc EXCEPT ![p] = "c_dial"]
    /\ UNCHANGED <<conn, nextReconnectTime, dialed, reconnectTimeout,
                   subscribeHandler, mu, now, closeCount, closedByUser>>
    /\ UNCHANGED <<plainConfig, opened, boolVars>>

\* lines 201-206: the Dialer returns; its connection is stored in r.conn
\* whether it failed or not
connectDial(p) ==
    /\ ~Crashed /\ pc[p] = "c_dial"
    /\ \E ok \in BOOLEAN :
          IF ok
             THEN /\ conn' = dialCount
                  /\ opened' = opened \cup {dialCount}
                  /\ UNCHANGED call
                  /\ IF subscribeHandler
                        THEN /\ pc' = [pc EXCEPT ![p] = "c_sub"]
                             /\ dialLog' = [dialLog EXCEPT ![Len(dialLog)].outcome = "subscribing"]
                        ELSE /\ pc' = [pc EXCEPT ![p] = "c_ret"]
                             /\ dialLog' = [dialLog EXCEPT ![Len(dialLog)].outcome = "ok"]
             ELSE /\ conn' = NilPtr
                  /\ UNCHANGED opened
                  /\ call' = [call EXCEPT ![p].recErr = "dial error"]
                  /\ pc' = [pc EXCEPT ![p] = "c_ret"]
                  /\ dialLog' = [dialLog EXCEPT ![Len(dialLog)].outcome = "dial error"]
    /\ closedByUser' = FALSE
    /\ UNCHANGED <<nextReconnectTime, dialed, reconnectTimeout,
                   subscribeHandler, mu, now, closeCount, dialCount, redials>>
    /\ UNCHANGED <<plainConfig, boolVars>>

\* lines 206-216: the subscribe handler runs on r.conn; when it fails the
\* connection is closed and stays in r.conn
connectSubscribe(p) ==
    /\ ~Crashed /\ pc[p] = "c_sub"
    /\ \E ok \in BOOLEAN :
          IF ok
             THEN /\ dialLog' = [dialLog EXCEPT ![Len(dialLog)].outcome = "ok"]
                  /\ UNCHANGED <<call, closeCount>>
             ELSE /\ dialLog' = [dialLog EXCEPT ![Len(dialLog)].outcome = "subscribe error"]
                  /\ closeCount' = CloseSocket(conn)
                  /\ call' = [call EXCEPT ![p].recErr = "subscribe error"]
    /\ pc' = [pc EXCEPT ![p] = "c_ret"]
    /\ UNCHANGED <<conn, nextReconnectTime, dialed, reconnectTimeout,
                   subscribeHandler, mu, now, dialCount, closedByUser, redials>>
    /\ UNCHANGED <<plainConfig, opened, boolVars>>

\* connect returns: the deferred function (lines 184-189) and the deferred
\* Unlock (line 180) run, then the caller returns (lines 113, 131-135, 160-164)
connectReturn(p) ==
    /\ ~Crashed /\ pc[p] = "c_ret"
    /\ nextReconnectTime' = DeferredNextReconnectTime(call[p].recErr)
    /\ mu' = Unlocked
    /\ dialLog' = [dialLog EXCEPT ![Len(dialLog)].end = now]
    /\ call' = Return(p, call[p].op, ReturnError(call[p].op, call[p].opErr, call[p].recErr))
    /\ pc' = [pc EXCEPT ![p] = "idle"]
    /\ UNCHANGED <<conn, dialed, reconnectTimeout, subscribeHandler, now,
                   closeCount, dialCount, closedByUser, redials>>
    /\ UNCHANGED <<plainConfig, opened, boolVars>>

\* ------------------------------------------------------------------- Close
Close(p) ==
    /\ ~Crashed /\ pc[p] = "idle"
    /\ IF NotDialed
          THEN /\ call' = Return(p, "Close", Plain("ErrNotDialed"))
               /\ pc' = pc
          ELSE /\ call' = [call EXCEPT ![p] = NewCall("Close")]
               /\ pc' = [pc EXCEPT ![p] = "cl_lock"]
    /\ UNCHANGED <<conn, nextReconnectTime, dialed, reconnectTimeout,
                   subscribeHandler, mu, now, closeCount, dialCount, dialLog, closedByUser, redials>>
    /\ UNCHANGED <<plainConfig, opened, boolVars>>

\* line 233: r.mu.Lock()
closeLock(p) ==
    /\ ~Crashed /\ pc[p] = "cl_lock"
    /\ CanLock
    /\ mu' = Locked(p)
    /\ pc' = [pc EXCEPT ![p] = "cl_body"]
    /\ UNCHANGED <<conn, nextReconnectTime, dialed, reconnectTimeout,
                   subscribeHandler, now, call, closeCount, dialCount, dialLog,
                   closedByUser, redials>>
    /\ UNCHANGED <<plainConfig, opened, boolVars>>

\* lines 236-244 with the deferred Unlock
closeBody(p) ==
    /\ ~Crashed /\ pc[p] = "cl_body"
    /\ mu' = Unlocked
    /\ \/ /\ conn = Nil
          /\ call' = Return(p, call[p].op, Plain("ErrNotConnected"))
          /\ pc' = [pc EXCEPT ![p] = "idle"]
          /\ UNCHANGED <<conn, closeCount, closedByUser, redials>>
       \/ /\ conn = NilPtr
          /\ call' = Return(p, call[p].op, Plain("panic"))
          /\ pc' = [pc EXCEPT ![p] = "panic"]
          /\ UNCHANGED <<conn, closeCount, closedByUser, redials>>
       \/ /\ conn \in Sockets
          /\ \E e \in CloseResults(conn) :
                call' = Return(p, call[p].op, Plain(e))
          /\ closeCount' = CloseSocket(conn)
          /\ conn' = Nil
          /\ closedByUser' = TRUE
          /\ pc' = [pc EXCEPT ![p] = "idle"]
    /\ UNCHANGED <<nextReconnectTime, dialed, reconnectTimeout,
                   subscribeHandler, now, dialCount, dialLog, redials>>
    /\ UNCHANGED <<plainConfig, opened, boolVars>>

\* --------------------------------------------------- atomicBool (bool.go)
\* every field of the ReConn, which the atomicBool does not touch
reconnVars == <<connState, call, reconnectTimeout, subscribeHandler, plainConfig>>

BoolName(b) == IF b THEN "true" ELSE "false"

\* a Set that stores 1 whatever its argument
AlwaysOne(b) == 1

\* bool.go lines 14-17: var v int32 = 0; if value { v = 1 }
ToInt32(b) == IF b THEN 1 ELSE 0

\* bool.go line 22: ... != 0
FromInt32(v) == v # 0

\* bool.go lines 13-17: Set(value) computes v
Set(p, b) ==
    /\ boolCall[p].pc = "idle"
    /\ boolCall' = [boolCall EXCEPT ![p].pc = "store", ![p].arg = b, ![p].v = ToInt32(b)]
    /\ UNCHANGED <<value, lastSet, reconnVars>>

\* bool.go line 18: atomic.StoreInt32(&b.value, v), then Set returns
SetStore(p) ==
    /\ boolCall[p].pc = "store"
    /\ value' = boolCall[p].v
    /\ lastSet' = BoolName(boolCall[p].arg)
    /\ boolCall' = [boolCall EXCEPT ![p].pc = "idle", ![p].arg = FALSE, ![p].v = 0]
    /\ UNCHANGED reconnVars

\* bool.go line 21: Get is called
Get(p) ==
    /\ boolCall[p].pc = "idle"
    /\ boolCall' = [boolCall EXCEPT ![p].pc = "load"]
    /\ UNCHANGED <<value, lastSet, reconnVars>>

\* bool.go line 22: return atomic.LoadInt32(&b.value) != 0
GetLoad(p) ==
    /\ boolCall[p].pc = "load"
    /\ boolCall' = [boolCall EXCEPT ![p].pc = "idle", ![p].got = BoolName(FromInt32(value))]
    /\ UNCHANGED <<value, lastSet, reconnVars>>

\* ----------------------------------------------------------- specification
Next ==
    \/ \E p \in Procs, d \in Timeouts : SetReconnectTimeout(p, d)
    \/ \E p \in Procs, f \in Handlers : SetSubscribeHandler(p, f)
    \/ \E p \in Procs : Dial(p)
    \/ \E p \in Procs : DialSetDialed(p)
    \/ \E p \in Procs : ReadMessage(p)
    \/ \E p \in Procs : WriteMessage(p)
    \/ \E p \in Procs : RLock(p)
    \/ \E p \in Procs : readMessage(p)
    \/ \E p \in Procs : writeMessage(p)
    \/ \E p \in Procs : connectLock(p)
    \/ \E p \in Procs : connectWait(p)
    \/ \E p \in Procs : connectDial(p)
    \/ \E p \in Procs : connectSubscribe(p)
    \/ \E p \in Procs : connectReturn(p)
    \/ \E p \in Procs : Close(p)
    \/ \E p \in Procs : closeLock(p)
    \/ \E p \in Procs : closeBody(p)
    \/ Tick

Spec == Init /\ [][Next]_vars

\* The configuration and Dial: every setter, and Dial with its connect
NextConfig ==
    \/ \E p \in Procs, u \in Urls : SetURL(p, u)
    \/ \E p \in Procs, d \in HandshakeTimeouts : SetHandshakeTimeout(p, d)
    \/ \E p \in Procs, d \in Timeouts : SetReconnectTimeout(p, d)
    \/ \E p \in Procs, f \in Handlers : SetSubscribeHandler(p, f)
    \/ \E p \in Procs, l \in Loggers : SetLogger(p, l)
    \/ \E p \in Procs : Dial(p)
    \/ \E p \in Procs : DialSetDialed(p)
    \/ \E p \in Procs : connectLock(p)
    \/ \E p \in Procs : connectWait(p)
    \/ \E p \in Procs : connectDial(p)
    \/ \E p \in Procs : connectSubscribe(p)
    \/ \E p \in Procs : connectReturn(p)
    \/ Tick

SpecConfig == Init /\ [][NextConfig]_vars

\* An atomicBool shared by the goroutines
NextBool ==
    \/ \E p \in Procs, b \in BOOLEAN : Set(p, b)
    \/ \E p \in Procs : SetStore(p)
    \/ \E p \in Procs : Get(p)
    \/ \E p \in Procs : GetLoad(p)

SpecBool == Init /\ [][NextBool]_vars

TypeOK ==
    /\ conn \in {Nil, NilPtr} \cup Sockets
    /\ dialed \in BOOLEAN
    /\ subscribeHandler \in BOOLEAN
    /\ mu.writer \in Procs \cup {NoProc}
    /\ mu.readers \subseteq Procs
    /\ mu.writer # NoProc => mu.readers = {}
    /\ dialCount <= MaxDials /\ Len(dialLog) <= 2

\* ------------------------------------------------------------------ claims
ReadWrite == {"ReadMessage", "WriteMessage"}
InConnect == {"c_wait", "c_dial", "c_sub", "c_ret"}
Failed == {"dial error", "subscribe error"}

\* C1: a read or write whose socket operation failed has invoked the Dialer
\* exactly once when its connect returns, and never more than once; when the
\* dial and the subscribe handler succeeded, r.conn is the socket just dialed,
\* the socket the operation failed on has been closed, and the call returns
\* the error of the operation itself, not a composed one.
C1_State ==
    \A p \in Procs :
        /\ call[p].dials <= 1
        /\ (pc[p] = "c_ret" /\ call[p].op \in ReadWrite /\ call[p].opErr = "sockErr") =>
              /\ call[p].dials = 1
              /\ call[p].recErr = "nil" =>
                    /\ conn = dialCount /\ conn \in Sockets
                    /\ conn # call[p].sock
                    /\ closeCount[call[p].sock] >= 1
                    /\ closeCount[conn] = 0

C1_Return ==
    \A p \in Procs :
        (/\ pc[p] = "c_ret" /\ pc'[p] = "idle"
         /\ call[p].op \in ReadWrite /\ call[p].opErr = "sockErr"
         /\ call[p].recErr = "nil") => call'[p].ret = Plain("sockErr")

C2_OneDialPerFailedSocket == \A s \in Sockets : redials[s] <= 1

\* C3: when a connect attempt failed (dial or subscribe error) and returned at
\* time t, the next invocation of the Dialer starts at t + reconnectTimeout or
\* later.
C3_NextDialAfterFailureWaits ==
    (Len(dialLog) = 2 /\ dialLog[1].outcome \in Failed) =>
        dialLog[2].start >= dialLog[1].end + reconnectTimeout

C3_Witness ==
    /\ Len(dialLog) = 2 /\ dialLog[1].outcome \in Failed
    /\ reconnectTimeout > 0
    /\ dialLog[2].start = dialLog[1].end + reconnectTimeout

\* C4 (as claimed): any two successive invocations of the Dialer start at
\* least reconnectTimeout apart, whatever the outcome of the earlier one.
C4_AnyTwoDialsSpaced ==
    Len(dialLog) = 2 => dialLog[2].start - dialLog[1].start >= reconnectTimeout

\* C4 (amended): two successive invocations of the Dialer start at least
\* reconnectTimeout apart when the earlier attempt failed.
C4_DialsAfterFailureSpaced ==
    (Len(dialLog) = 2 /\ dialLog[1].outcome \in Failed) =>
        dialLog[2].start - dialLog[1].start >= reconnectTimeout

C4_Witness ==
    /\ Len(dialLog) = 2 /\ dialLog[1].outcome = "subscribe error"
    /\ reconnectTimeout = 2
    /\ dialLog[2].outcome # "dialing"

\* C5 (as claimed): a read or write that was delegated to a socket, failed,
\* and whose connect finds r.conn emptied by a Close() that completed during
\* the call, leaves connect without invoking the Dialer, without a reconnect
\* error and with r.conn still nil.
C5_ClosedDuringCallNoDial ==
    \A p \in Procs :
        (/\ pc[p] \in InConnect /\ call[p].op \in ReadWrite
         /\ call[p].sock \in Sockets
         /\ ~call[p].closedAtStart /\ call[p].closedAtLock) =>
            /\ call[p].dials = 0
            /\ call[p].recErr = "nil"
            /\ conn = Nil

\* C6 (as claimed): a read or write started after Close() emptied r.conn does
\* not invoke the Dialer and leaves r.conn nil.
C6_ClosedStaysClosed ==
    \A p \in Procs :
        (call[p].op \in ReadWrite /\ call[p].closedAtStart) =>
            /\ call[p].dials = 0
            /\ pc[p] \in InConnect => conn = Nil

\* C7 (as claimed): with a subscribe handler set, no read or write is
\* delegated to a dialed socket on which the handler has not returned nil.
C7_NoDelegationBeforeSubscribed ==
    \A p \in Procs :
        (pc[p] = "delegate" /\ conn \in Sockets /\ subscribeHandler) =>
            (conn = dialCount /\ dialLog[Len(dialLog)].outcome = "ok")

\* C8: a read or write that failed and whose connect failed too (dial or
\* subscribe error) returns a composed error that carries both errors.
C8_Return ==
    \A p \in Procs :
        (/\ pc[p] = "c_ret" /\ pc'[p] = "idle"
         /\ call[p].op \in ReadWrite /\ call[p].recErr \in Failed) =>
            /\ call[p].opErr # "nil"
            /\ call'[p].ret = Composed(call[p].opErr, call[p].recErr)

\* C8: every step that returns from such a call returns the composed error
C8_BothFailedReturnsComposed == [][C8_Return]_vars

C8_Witness ==
    \E p \in Procs :
        /\ call[p].op \in ReadWrite /\ call[p].ret.kind = "composed"
        /\ call[p].ret.orig # "" /\ call[p].ret.rec \in Failed

\* C9: a Dial call made once r.dialed is set returns ErrAlreadyDialed in one
\* step that invokes neither the Dialer nor the subscribe handler and changes
\* neither r.conn, r.nextReconnectTime nor the configuration.
C9_Step ==
    \A p \in Procs :
        (/\ pc[p] = "idle" /\ call'[p] # call[p]
         /\ call'[p].op = "Dial" /\ dialed) =>
            /\ call'[p].ret = Plain("ErrAlreadyDialed")
            /\ pc'[p] = "idle"
            /\ UNCHANGED <<conn, nextReconnectTime, dialed, reconnectTimeout,
                           subscribeHandler, mu, closeCount, dialCount, dialLog>>

\* C9: every step that starts such a Dial call rejects it and changes nothing
C9_SecondDialRejected == [][C9_Step]_vars

C9_Witness ==
    \E p \in Procs :
        call[p].op = "Dial" /\ call[p].ret = Plain("ErrAlreadyDialed")

\* C10: while r.dialed is unset, ReadMessage, WriteMessage and Close return
\* ErrNotDialed in one step that takes no lock, invokes no Dialer and changes
\* nothing of the ReConn; no Dialer has been invoked and no lock is held then.
C10_State ==
    ~dialed => /\ dialCount = 0 /\ conn = Nil
               /\ mu.writer = NoProc /\ mu.readers = {}
               /\ \A p \in Procs : pc[p] \in {"idle", "dial_set"}

C10_Step ==
    \A p \in Procs :
        (/\ pc[p] = "idle" /\ call'[p] # call[p]
         /\ call'[p].op \in ReadWrite \cup {"Close"} /\ ~dialed) =>
            /\ call'[p].ret = Plain("ErrNotDialed")
            /\ pc'[p] = "idle"
            /\ UNCHANGED <<conn, nextReconnectTime, dialed, reconnectTimeout,
                           subscribeHandler, mu, closeCount, dialCount, dialLog>>

\* C10: both parts, the state while undialed and the steps of the three methods
C10_NotDialedRejected == []C10_State /\ [][C10_Step]_vars

C10_Witness ==
    /\ ~dialed
    /\ \E p \in Procs :
          call[p].op \in ReadWrite \cup {"Close"} /\ call[p].ret = Plain("ErrNotDialed")

\* C11: once r.dialed is set no step changes any of the five configuration
\* fields, so they stay as they were at Dial; before that a step changes at
\* most one of them, and a call of SetURL, SetHandshakeTimeout or SetLogger
\* stores its argument (NoopLogger for a nil logger) in its own field.
Changed(old, new) == IF old = new THEN 0 ELSE 1

C11_Step ==
    /\ dialed => UNCHANGED <<url, handshakeTimeout, reconnectTimeout,
                             subscribeHandler, log>>
    /\ Changed(url, url') + Changed(handshakeTimeout, handshakeTimeout')
         + Changed(reconnectTimeout, reconnectTimeout')
         + Changed(subscribeHandler, subscribeHandler') + Changed(log, log') <= 1
    /\ \A p \in Procs :
          (~dialed /\ call'[p] # call[p]) =>
              /\ call'[p].op = "SetURL" => url' \in Urls
              /\ call'[p].op = "SetHandshakeTimeout" => handshakeTimeout' \in HandshakeTimeouts
              /\ call'[p].op = "SetLogger" => log' \in {"NoopLogger", "L1"}

\* C11: every step keeps the configuration frozen after Dial
C11_SettersFrozenAfterDial == [][C11_Step]_vars

C11_Witness ==
    /\ dialed /\ url = "" /\ handshakeTimeout = 5 /\ log = "L1"
    /\ \E p \in Procs : call[p].op = "SetURL"

\* C12: a Close() that runs its body with a socket held closes that socket
\* once, clears r.conn and returns the result of the socket's Close; with no
\* socket held it returns ErrNotConnected and closes nothing.
C12_Step ==
    \A p \in Procs :
        (pc[p] = "cl_body" /\ pc'[p] # "cl_body") =>
            IF conn \in Sockets
               THEN /\ closeCount' = [closeCount EXCEPT ![conn] = @ + 1]
                    /\ conn' = Nil
                    /\ call'[p].ret.kind \in {"nil", "closeErr"}
                    /\ pc'[p] = "idle"
               ELSE /\ call'[p].ret = Plain("ErrNotConnected")
                    /\ closeCount' = closeCount
                    /\ pc'[p] = "idle"

\* C12: every Close() on a dialed ReConn behaves so
C12_CloseClearsOrNotConnected == [][C12_Step]_vars

\* C13: when connect is about to return a dial error or a subscribe error,
\* r.conn is nil, so that a later read or write finds the ReConn disconnected.
C13_FailedConnectHoldsNoSocket ==
    \A p \in Procs :
        (pc[p] = "c_ret" /\ call[p].recErr \in Failed) => conn = Nil

\* C14: every socket the Dialer has produced and nobody has closed is the one
\* r.conn references, so at most one is open; and the Dialer is invoked with
\* the previous socket closed and discarded.
C14_OnlyReferencedSocketOpen ==
    /\ \A s \in opened : closeCount[s] = 0 => conn = s
    /\ \A p \in Procs : pc[p] = "c_dial" => conn = Nil

C14_Witness ==
    \E s, t \in opened :
        /\ s # t /\ closeCount[s] > 0 /\ closeCount[t] = 0 /\ conn = t
        /\ \A p \in Procs : pc[p] = "idle"

\* C15: with a non-negative reconnectTimeout no step decreases
\* r.nextReconnectTime, and the only step that changes it is the return of a
\* connect that failed with a dial error or a subscribe error.
C15_Step ==
    reconnectTimeout >= 0 =>
        /\ nextReconnectTime' >= nextReconnectTime
        /\ nextReconnectTime' # nextReconnectTime =>
              \E p \in Procs : /\ pc[p] = "c_ret" /\ pc'[p] = "idle"
                               /\ call[p].recErr \in Failed

\* C15: every step treats r.nextReconnectTime so
C15_NextReconnectTimeMonotone == [][C15_Step]_vars

C15_Witness ==
    /\ nextReconnectTime > 0
    /\ conn \in Sockets /\ closeCount[conn] = 0
    /\ \E p \in Procs : pc[p] = "idle" /\ call[p].op = "Close"

\* C16: at most one goroutine is inside the locked part of connect or Close,
\* and then no read or write is being delegated; and while a read or write
\* is being delegated no step closes a socket or changes r.conn.
InExclusive == InConnect \cup {"cl_body"}

C16_State ==
    /\ Cardinality({p \in Procs : pc[p] \in InExclusive}) <= 1
    /\ (\E p \in Procs : pc[p] \in InExclusive) =>
           \A q \in Procs : pc[q] # "delegate"

C16_Step ==
    (\E q \in Procs : pc[q] = "delegate") =>
        conn' = conn /\ closeCount' = closeCount

C16_ExclusiveBodiesSharedDelegations == []C16_State /\ [][C16_Step]_vars

C16_Witness ==
    \E p, q \in Procs :
        /\ pc[p] = "delegate" /\ conn \in Sockets
        /\ pc[q] \in {"c_lock", "cl_lock"}

\* C17: a goroutine that asks for the exclusive lock does not hold the shared
\* lock, and no call ends in any way but by returning: a call that panicked
\* never returns.
C17_NoUpgradeEveryCallReturns ==
    /\ \A p \in Procs : pc[p] \in {"c_lock", "cl_lock"} => p \notin mu.readers
    /\ \A p \in Procs : pc[p] # "panic"

\* C18: no socket is closed more than once by the ReConn.
C18_EachSocketClosedOnce == \A s \in Sockets : closeCount[s] <= 1

\* C19: of the goroutines that call Dial on the undialed ReConn at most one
\* goes on to set r.dialed and to run connect.
C19_OneFirstDial ==
    Cardinality({p \in Procs : call[p].op = "Dial" /\ pc[p] # "idle"}) <= 1

\* C20: a new atomicBool holds false; the stored value is that of the latest
\* Set that has stored, so a Get returns it whatever the interleaving; and a
\* Set of the value the latest Set stored leaves the atomicBool as it is.
MostRecentSet == IF lastSet = "none" THEN "false" ELSE lastSet

C20_State == BoolName(FromInt32(value)) = MostRecentSet

C20_Step ==
    \A p \in Procs :
        /\ (boolCall[p].pc = "load" /\ boolCall'[p].pc = "idle") =>
               boolCall'[p].got = MostRecentSet
        /\ (boolCall[p].pc = "store" /\ boolCall'[p].pc = "idle"
              /\ BoolName(boolCall[p].arg) = MostRecentSet) => value' = value

C20_AtomicRegister == []C20_State /\ [][C20_Step]_vars

C20_Witness ==
    \E p, q \in Procs :
        /\ boolCall[p].got = "true" /\ boolCall[p].pc = "load"
        /\ lastSet = "false"
        /\ boolCall[q].pc = "store" /\ boolCall[q].arg = TRUE

====
